---- MODULE Spec2Model ----
(***************************************************************************)
(* Model of src/src/main.rs: the start-up sequence of main() and the       *)
(* 'app render loop (event drain, point accumulation, back-buffer          *)
(* reacquisition, render, swap, print).                                    *)
(*                                                                         *)
(* The program variables are pc (position in main), queue (the events      *)
(* still in surface.events_rx for this drain), cursor_position,            *)
(* left_button_pressed, resize, points, back_buffer and render.  The       *)
(* remaining variables are observation variables: they record what the     *)
(* program did (calls made to the collaborators, events delivered) and     *)
(* never influence a guard.                                                *)
(***************************************************************************)
EXTENDS Integers, Sequences, FiniteSets, TLC

VARIABLES
  pc,                  \* position in main()
  queue,               \* events not yet yielded by flush_messages this frame
  cursor_position,     \* main.rs:129
  left_button_pressed, \* main.rs:126
  resize,              \* main.rs:124
  points,              \* main.rs:125
  back_buffer,         \* main.rs:123, the handle (0 = none, n = n-th acquired)
  indexed_triangles,   \* main.rs:113, the tessellation built from the static data
  render,              \* main.rs:178, "none" | "ok" | "err"
  delivered,           \* observation: events queued by poll_events for the frame in progress
  frame,               \* observation: number of loop iterations started
  ops,                 \* observation: collaborator calls made in this frame
  term,                \* observation: why main() left the loop
  printed,             \* observation: the sequence the last println! wrote
  lastBtn,             \* observation: last Button1 Press/Release processed
  nAcquire,            \* observation: calls of surface.back_buffer() in the loop
  nRender,             \* observation: pipelines run
  nRenderOk,           \* observation: pipelines that returned Ok
  nSwap,               \* observation: calls of swap_buffers
  nEmit,               \* observation: calls of println!
  points0,             \* observation: points when this frame started
  back_buffer0,        \* observation: back_buffer when this frame started
  fbStale              \* observation: a FramebufferSize event was processed
                       \* since back_buffer was last acquired

vars == <<pc, queue, cursor_position, left_button_pressed, resize, points,
          back_buffer, render, delivered, frame, ops, term, printed, lastBtn,
          nAcquire, nRender, nRenderOk, nSwap, nEmit, points0, back_buffer0,
          indexed_triangles, fbStale>>

frameObs == <<points0, back_buffer0>>

obsCounters == <<nAcquire, nRender, nRenderOk, nSwap, nEmit>>

----------------------------------------------------------------------------
(* Bounds *)

MaxFrames == 3

MaxEvents == 2

----------------------------------------------------------------------------
(* Events: glfw::WindowEvent, restricted to a representative alphabet *)

Sentinel == <<-1, -1>>

NoPos == <<0, 0>>

Positions == {Sentinel, <<10, 20>>, <<15, 25>>}

Ev(k, key, button, action, pos) ==
  [kind |-> k, key |-> key, button |-> button, action |-> action, pos |-> pos]

CloseEv == Ev("Close", "-", "-", "-", NoPos)

FramebufferSizeEv == Ev("FramebufferSize", "-", "-", "-", NoPos)

ScrollEv == Ev("Scroll", "-", "-", "-", NoPos)

KeyEv(key, action) == Ev("Key", key, "-", action, NoPos)

CursorPosEv(p) == Ev("CursorPos", "-", "-", "-", p)

MouseButtonEv(button, action) == Ev("MouseButton", "-", button, action, NoPos)

Events ==
  {CloseEv, FramebufferSizeEv, ScrollEv}
  \cup {KeyEv("Escape", "Release"), KeyEv("Escape", "Press"), KeyEv("A", "Release")}
  \cup {CursorPosEv(p) : p \in Positions}
  \cup {MouseButtonEv("Button1", a) : a \in {"Press", "Release", "Repeat"}}
  \cup {MouseButtonEv("Button2", "Press")}

EventSeqs == UNION {[1..n -> Events] : n \in 0..MaxEvents}

----------------------------------------------------------------------------
(* The match of main.rs:134-162, arm by arm *)

IsQuitAnyEscape(e) ==
  \/ e.kind = "Close"
  \/ e.kind = "Key" /\ e.key = "Escape"

IsQuitCloseOnly(e) == e.kind = "Close"

IsQuitNever(e) == FALSE

IsQuit(e) ==
  \/ e.kind = "Close"
  \/ e.kind = "Key" /\ e.key = "Escape" /\ e.action = "Release"

NextResizeNever(e, rs) == rs

NextResizeToggle(e, rs) ==
  IF e.kind = "FramebufferSize" THEN ~rs ELSE rs

NextResize(e, rs) ==
  IF e.kind = "FramebufferSize" THEN TRUE ELSE rs

(* The static mesh data, main.rs:54-87.  Coordinates are in halves        *)
(* (0.5 is 1, -0.5 is -1), colours are the u8 triples.                     *)
Vertex(pos, rgb) == [pos |-> pos, rgb |-> rgb]

TRI_VERTICES ==
  << Vertex(<<1, -1>>, <<0, 255, 0>>),
     Vertex(<<0, 1>>, <<0, 0, 255>>),
     Vertex(<<-1, -1>>, <<255, 0, 0>>),
     Vertex(<<-1, 1>>, <<255, 51, 255>>),
     Vertex(<<0, -1>>, <<51, 255, 255>>),
     Vertex(<<1, 1>>, <<51, 51, 255>>) >>

TRI_INDICES_OutOfRange == <<0, 1, 2, 3, 4, 6>>

TRI_INDICES == <<0, 1, 2, 3, 4, 5>>

NoTess == [built |-> FALSE, vertices |-> <<>>, indices |-> <<>>, mode |-> "-"]

(* new_tess().set_vertices(..).set_indices(..).set_mode(..).build(),       *)
(* main.rs:113-119                                                         *)
BuildTess(vertices, indices) ==
  [built |-> TRUE, vertices |-> vertices, indices |-> indices, mode |-> "Triangle"]

NextCursor(e, cur) ==
  IF e.kind = "CursorPos" THEN e.pos ELSE cur

NextPressedAnyButton(e, pressed) ==
  IF e.kind = "MouseButton"
  THEN CASE e.action = "Press" -> TRUE
         [] e.action = "Release" -> FALSE
         [] OTHER -> pressed
  ELSE pressed

NextPressedSticky(e, pressed) ==
  IF e.kind = "MouseButton" /\ e.button = "Button1"
  THEN CASE e.action = "Press" -> TRUE
         [] e.action = "Release" -> pressed
         [] OTHER -> pressed
  ELSE pressed

NextPressed(e, pressed) ==
  IF e.kind = "MouseButton"
  THEN IF e.button # "Button1"
       THEN pressed
       ELSE CASE e.action = "Press" -> TRUE
              [] e.action = "Release" -> FALSE
              [] OTHER -> pressed
  ELSE pressed

ShouldPushNoButton(pressed, cur) == cur # Sentinel

ShouldPushNoSentinel(pressed, cur) == pressed

ShouldPush(pressed, cur) == pressed /\ cur # Sentinel

PushedPrepend(pts, cur) == <<cur>> \o pts

Pushed(pts, cur) == Append(pts, cur)

(* observation of the Button1 Press/Release events the match has handled *)
NextLastBtn(e, last) ==
  IF e.kind = "MouseButton" /\ e.button = "Button1" /\ e.action \in {"Press", "Release"}
  THEN e.action
  ELSE last

(* observation: the event makes the back buffer in hand out of date *)
NextStale(e, stale) ==
  IF e.kind = "FramebufferSize" THEN TRUE ELSE stale

----------------------------------------------------------------------------
(* Start-up, main.rs:95-126 *)

Init ==
  /\ pc = "new_surface"
  /\ queue = <<>>
  /\ cursor_position = Sentinel
  /\ left_button_pressed = FALSE
  /\ resize = FALSE
  /\ points = <<>>
  /\ back_buffer = 0
  /\ render = "none"
  /\ delivered = <<>>
  /\ frame = 0
  /\ ops = <<>>
  /\ term = "none"
  /\ printed = <<>>
  /\ lastBtn = "None"
  /\ nAcquire = 0
  /\ nRender = 0
  /\ nRenderOk = 0
  /\ nSwap = 0
  /\ nEmit = 0
  /\ points0 = <<>>
  /\ back_buffer0 = 0
  /\ indexed_triangles = NoTess
  /\ fbStale = FALSE

loopVars == <<queue, cursor_position, left_button_pressed, resize, points,
              render, delivered, frame, ops, printed, lastBtn, obsCounters,
              frameObs, fbStale>>

SetupStep(from, to) ==
  /\ pc = from
  /\ \/ pc' = to /\ term' = term
     \/ pc' = "panicked" /\ term' = "panic"

NewSurface ==
  /\ SetupStep("new_surface", "new_program")
  /\ UNCHANGED <<loopVars, back_buffer, indexed_triangles>>

NewProgram ==
  /\ SetupStep("new_program", "new_tess")
  /\ UNCHANGED <<loopVars, back_buffer, indexed_triangles>>

NewTessLenient ==
  /\ pc = "new_tess"
  /\ \/ /\ pc' = "back_buffer"
        /\ term' = term
        /\ indexed_triangles' = BuildTess(TRI_VERTICES, TRI_INDICES)
     \/ /\ pc' = "back_buffer"
        /\ term' = "panic"
        /\ indexed_triangles' = indexed_triangles
  /\ UNCHANGED <<loopVars, back_buffer>>

NewTess ==
  /\ pc = "new_tess"
  /\ \/ /\ pc' = "back_buffer"
        /\ term' = term
        /\ indexed_triangles' = BuildTess(TRI_VERTICES, TRI_INDICES)
     \/ /\ pc' = "panicked"
        /\ term' = "panic"
        /\ indexed_triangles' = indexed_triangles
  /\ UNCHANGED <<loopVars, back_buffer>>

FirstBackBuffer ==
  /\ pc = "back_buffer"
  /\ \/ pc' = "poll" /\ back_buffer' = 1 /\ term' = term
     \/ pc' = "panicked" /\ back_buffer' = back_buffer /\ term' = "panic"
  /\ UNCHANGED <<loopVars, indexed_triangles>>

----------------------------------------------------------------------------
(* The 'app loop, main.rs:128-203 *)

PollEventsKeepCursor ==
  /\ pc = "poll"
  /\ frame < MaxFrames
  /\ \E evs \in EventSeqs :
       /\ delivered' = evs
       /\ queue' = evs
  /\ cursor_position' = cursor_position
  /\ frame' = frame + 1
  /\ ops' = <<"poll_events">>
  /\ points0' = points
  /\ back_buffer0' = back_buffer
  /\ pc' = "events"
  /\ UNCHANGED <<left_button_pressed, resize, points, back_buffer, render,
                 term, printed, lastBtn, obsCounters, indexed_triangles,
                 fbStale>>

PollEventsResetFlag ==
  /\ pc = "poll"
  /\ frame < MaxFrames
  /\ \E evs \in EventSeqs :
       /\ delivered' = evs
       /\ queue' = evs
  /\ cursor_position' = Sentinel
  /\ left_button_pressed' = FALSE
  /\ frame' = frame + 1
  /\ ops' = <<"poll_events">>
  /\ points0' = points
  /\ back_buffer0' = back_buffer
  /\ pc' = "events"
  /\ UNCHANGED <<resize, points, back_buffer, render,
                 term, printed, lastBtn, obsCounters, indexed_triangles,
                 fbStale>>

PollEvents ==
  /\ pc = "poll"
  /\ frame < MaxFrames
  /\ \E evs \in EventSeqs :
       /\ delivered' = evs
       /\ queue' = evs
  /\ cursor_position' = Sentinel
  /\ frame' = frame + 1
  /\ ops' = <<"poll_events">>
  /\ points0' = points
  /\ back_buffer0' = back_buffer
  /\ pc' = "events"
  /\ UNCHANGED <<left_button_pressed, resize, points, back_buffer, render,
                 term, printed, lastBtn, obsCounters, indexed_triangles,
                 fbStale>>

HandleEventInnerBreak ==
  /\ pc = "events"
  /\ queue # <<>>
  /\ LET e == Head(queue) IN
       /\ queue' = Tail(queue)
       /\ IF IsQuit(e)
          THEN /\ pc' = "append"
               /\ term' = "quit"
               /\ UNCHANGED <<resize, cursor_position, left_button_pressed, lastBtn,
                              fbStale>>
          ELSE /\ pc' = "events"
               /\ term' = term
               /\ resize' = NextResize(e, resize)
               /\ cursor_position' = NextCursor(e, cursor_position)
               /\ left_button_pressed' = NextPressed(e, left_button_pressed)
               /\ lastBtn' = NextLastBtn(e, lastBtn)
               /\ fbStale' = NextStale(e, fbStale)
  /\ UNCHANGED <<points, back_buffer, render, delivered, frame, ops, printed,
                 obsCounters>>
  /\ UNCHANGED <<frameObs, indexed_triangles>>

HandleEvent ==
  /\ pc = "events"
  /\ queue # <<>>
  /\ LET e == Head(queue) IN
       /\ queue' = Tail(queue)
       /\ IF IsQuit(e)
          THEN /\ pc' = "returned"
               /\ term' = "quit"
               /\ UNCHANGED <<resize, cursor_position, left_button_pressed, lastBtn,
                              fbStale>>
          ELSE /\ pc' = "events"
               /\ term' = term
               /\ resize' = NextResize(e, resize)
               /\ cursor_position' = NextCursor(e, cursor_position)
               /\ left_button_pressed' = NextPressed(e, left_button_pressed)
               /\ lastBtn' = NextLastBtn(e, lastBtn)
               /\ fbStale' = NextStale(e, fbStale)
  /\ UNCHANGED <<points, back_buffer, render, delivered, frame, ops, printed,
                 obsCounters>>
  /\ UNCHANGED <<frameObs, indexed_triangles>>

EventsDone ==
  /\ pc = "events"
  /\ queue = <<>>
  /\ pc' = "append"
  /\ UNCHANGED <<queue, cursor_position, left_button_pressed, resize, points,
                 back_buffer, render, delivered, frame, ops, term, printed,
                 lastBtn, obsCounters>>
  /\ UNCHANGED <<frameObs, indexed_triangles, fbStale>>

PushPoint ==
  /\ pc = "append"
  /\ IF ShouldPush(left_button_pressed, cursor_position)
     THEN points' = Pushed(points, cursor_position)
     ELSE points' = points
  /\ pc' = "resize"
  /\ UNCHANGED <<queue, cursor_position, left_button_pressed, resize,
                 back_buffer, render, delivered, frame, ops, term, printed,
                 lastBtn, obsCounters>>
  /\ UNCHANGED <<frameObs, indexed_triangles, fbStale>>

ReacquireKeepFlag ==
  /\ pc = "resize"
  /\ IF resize
     THEN /\ nAcquire' = nAcquire + 1
          /\ ops' = Append(ops, "back_buffer")
          /\ \/ /\ back_buffer' = back_buffer + 1
                /\ fbStale' = FALSE
                /\ resize' = resize
                /\ pc' = "render"
                /\ term' = term
             \/ /\ pc' = "panicked"
                /\ term' = "panic"
                /\ UNCHANGED <<back_buffer, resize, fbStale>>
     ELSE /\ pc' = "render"
          /\ UNCHANGED <<nAcquire, ops, back_buffer, resize, term, fbStale>>
  /\ UNCHANGED <<queue, cursor_position, left_button_pressed, points, render,
                 delivered, frame, printed, lastBtn, nRender, nRenderOk, nSwap,
                 nEmit>>
  /\ UNCHANGED <<frameObs, indexed_triangles>>

Reacquire ==
  /\ pc = "resize"
  /\ IF resize
     THEN /\ nAcquire' = nAcquire + 1
          /\ ops' = Append(ops, "back_buffer")
          /\ \/ /\ back_buffer' = back_buffer + 1
                /\ fbStale' = FALSE
                /\ resize' = FALSE
                /\ pc' = "render"
                /\ term' = term
             \/ /\ pc' = "panicked"
                /\ term' = "panic"
                /\ UNCHANGED <<back_buffer, resize, fbStale>>
     ELSE /\ pc' = "render"
          /\ UNCHANGED <<nAcquire, ops, back_buffer, resize, term, fbStale>>
  /\ UNCHANGED <<queue, cursor_position, left_button_pressed, points, render,
                 delivered, frame, printed, lastBtn, nRender, nRenderOk, nSwap,
                 nEmit>>
  /\ UNCHANGED <<frameObs, indexed_triangles>>

Render ==
  /\ pc = "render"
  /\ \E r \in {"ok", "err"} :
       /\ render' = r
       /\ nRenderOk' = IF r = "ok" THEN nRenderOk + 1 ELSE nRenderOk
  /\ nRender' = nRender + 1
  /\ ops' = Append(ops, "render")
  /\ pc' = "is_ok"
  /\ UNCHANGED <<queue, cursor_position, left_button_pressed, resize, points,
                 back_buffer, delivered, frame, term, printed, lastBtn,
                 nAcquire, nSwap, nEmit>>
  /\ UNCHANGED <<frameObs, indexed_triangles, fbStale>>

SwapOrBreakRetry ==
  /\ pc = "is_ok"
  /\ IF render = "ok"
     THEN /\ nSwap' = nSwap + 1
          /\ ops' = Append(ops, "swap_buffers")
          /\ pc' = "println"
          /\ term' = term
     ELSE /\ pc' = "poll"
          /\ term' = "render_failed"
          /\ UNCHANGED <<nSwap, ops>>
  /\ UNCHANGED <<queue, cursor_position, left_button_pressed, resize, points,
                 back_buffer, render, delivered, frame, printed, lastBtn,
                 nAcquire, nRender, nRenderOk, nEmit>>
  /\ UNCHANGED <<frameObs, indexed_triangles, fbStale>>

SwapOrBreakPanic ==
  /\ pc = "is_ok"
  /\ IF render = "ok"
     THEN /\ nSwap' = nSwap + 1
          /\ ops' = Append(ops, "swap_buffers")
          /\ pc' = "println"
          /\ term' = term
     ELSE /\ pc' = "panicked"
          /\ term' = "render_failed"
          /\ UNCHANGED <<nSwap, ops>>
  /\ UNCHANGED <<queue, cursor_position, left_button_pressed, resize, points,
                 back_buffer, render, delivered, frame, printed, lastBtn,
                 nAcquire, nRender, nRenderOk, nEmit>>
  /\ UNCHANGED <<frameObs, indexed_triangles, fbStale>>

SwapOrBreak ==
  /\ pc = "is_ok"
  /\ IF render = "ok"
     THEN /\ nSwap' = nSwap + 1
          /\ ops' = Append(ops, "swap_buffers")
          /\ pc' = "println"
          /\ term' = term
     ELSE /\ pc' = "returned"
          /\ term' = "render_failed"
          /\ UNCHANGED <<nSwap, ops>>
  /\ UNCHANGED <<queue, cursor_position, left_button_pressed, resize, points,
                 back_buffer, render, delivered, frame, printed, lastBtn,
                 nAcquire, nRender, nRenderOk, nEmit>>
  /\ UNCHANGED <<frameObs, indexed_triangles, fbStale>>

PrintPointsStale ==
  /\ pc = "println"
  /\ printed' = points0
  /\ nEmit' = nEmit + 1
  /\ ops' = Append(ops, "println")
  /\ delivered' = <<>>
  /\ pc' = "poll"
  /\ UNCHANGED <<queue, cursor_position, left_button_pressed, resize, points,
                 back_buffer, render, frame, term, lastBtn,
                 nAcquire, nRender, nRenderOk, nSwap>>
  /\ UNCHANGED <<frameObs, indexed_triangles, fbStale>>

PrintPoints ==
  /\ pc = "println"
  /\ printed' = points
  /\ nEmit' = nEmit + 1
  /\ ops' = Append(ops, "println")
  /\ delivered' = <<>>
  /\ pc' = "poll"
  /\ UNCHANGED <<queue, cursor_position, left_button_pressed, resize, points,
                 back_buffer, render, frame, term, lastBtn,
                 nAcquire, nRender, nRenderOk, nSwap>>
  /\ UNCHANGED <<frameObs, indexed_triangles, fbStale>>

Next ==
  \/ NewSurface
  \/ NewProgram
  \/ NewTess
  \/ FirstBackBuffer
  \/ PollEvents
  \/ HandleEvent
  \/ EventsDone
  \/ PushPoint
  \/ Reacquire
  \/ Render
  \/ SwapOrBreak
  \/ PrintPoints

Spec == Init /\ [][Next]_vars

(* The same loop over a smaller event alphabet (one event of each arm of   *)
(* the match that matters to leaving the loop), for the progress           *)
(* properties.                                                             *)
LiveEvents ==
  {CloseEv, KeyEv("Escape", "Release"), KeyEv("Escape", "Press"),
   FramebufferSizeEv, CursorPosEv(<<10, 20>>), MouseButtonEv("Button1", "Press")}

LiveEventSeqs == UNION {[1..n -> LiveEvents] : n \in 0..MaxEvents}

PollEventsLive ==
  /\ pc = "poll"
  /\ frame < MaxFrames
  /\ \E evs \in LiveEventSeqs :
       /\ delivered' = evs
       /\ queue' = evs
  /\ cursor_position' = Sentinel
  /\ frame' = frame + 1
  /\ ops' = <<"poll_events">>
  /\ points0' = points
  /\ back_buffer0' = back_buffer
  /\ pc' = "events"
  /\ UNCHANGED <<left_button_pressed, resize, points, back_buffer, render,
                 term, printed, lastBtn, obsCounters, indexed_triangles,
                 fbStale>>

LiveNext ==
  \/ NewSurface
  \/ NewProgram
  \/ NewTess
  \/ FirstBackBuffer
  \/ PollEventsLive
  \/ HandleEvent
  \/ EventsDone
  \/ PushPoint
  \/ Reacquire
  \/ Render
  \/ SwapOrBreak
  \/ PrintPoints

(* The loop is the only thread and no step of it waits: poll_events        *)
(* returns at once with whatever is queued (main.rs:132), so a step that   *)
(* is enabled is eventually taken.                                         *)
FairSpec == Init /\ [][LiveNext]_vars /\ WF_vars(LiveNext)

(* The exit status of the process: main returning gives 0, a panic of the  *)
(* main thread gives 101, -1 stands for a process that is still running.   *)
ExitCode ==
  CASE pc = "returned" -> 0
    [] pc = "panicked" -> 101
    [] OTHER -> -1

----------------------------------------------------------------------------
(* Vocabulary of the properties.  These are stated over the events and the *)
(* observation variables, not over the operators that model the match.     *)

CloseOrEscapeRelease(e) ==
  e = CloseEv \/ e = KeyEv("Escape", "Release")

Button1PressOrRelease(e) ==
  e = MouseButtonEv("Button1", "Press") \/ e = MouseButtonEv("Button1", "Release")

Unrecognized(e) ==
  /\ ~CloseOrEscapeRelease(e)
  /\ ~Button1PressOrRelease(e)
  /\ e.kind \notin {"FramebufferSize", "CursorPos"}

Some(s, P(_)) == \E i \in 1..Len(s) : P(s[i])

IsFramebufferSize(e) == e.kind = "FramebufferSize"

IsCursorPos(e) == e.kind = "CursorPos"

DeliveredQuit == Some(delivered, CloseOrEscapeRelease)

DeliveredResize == Some(delivered, IsFramebufferSize)

DeliveredCursorPos == Some(delivered, IsCursorPos)

(* the last CursorPos delivered this frame exists and is not (-1,-1) *)
DeliveredFreshCursor ==
  \E i \in 1..Len(delivered) :
    /\ IsCursorPos(delivered[i])
    /\ delivered[i].pos # Sentinel
    /\ \A j \in (i + 1)..Len(delivered) : ~IsCursorPos(delivered[j])

OpsSet == {ops[i] : i \in 1..Len(ops)}

Count(op) == Cardinality({i \in 1..Len(ops) : ops[i] = op})

Before(a, b) ==
  \A i, j \in 1..Len(ops) : (ops[i] = a /\ ops[j] = b) => i < j

IsPrefix(s, t) == Len(s) <= Len(t) /\ SubSeq(t, 1, Len(s)) = s

Running == pc \in {"poll", "events", "append", "resize", "render", "is_ok", "println"}

Terminating == term \in {"quit", "render_failed"}

Appended == Len(points) = Len(points0) + 1

(* a frame is in progress and its event loop and the append test of       *)
(* main.rs:166 are behind us                                               *)
AppendStepDone ==
  frame > 0 /\ pc \notin {"poll", "events", "append"} /\ term # "quit"

(* a frame is in progress and has got past main.rs:170-174, or main ended *)
ReacquireStepDone ==
  frame > 0 /\ pc \notin {"poll", "events", "append", "resize"}

----------------------------------------------------------------------------
(* C1: a frame whose delivered events include Close or Escape-Release ends *)
(* the loop in that same frame, wherever the event sits in the frame: the  *)
(* control is either still draining events with the quit event ahead, or   *)
(* main has returned because of it; no render, no swap_buffers is issued   *)
(* for that frame.                                                         *)
C1_QuitFrameTerminates ==
  DeliveredQuit =>
    /\ pc \in {"events", "returned"}
    /\ pc = "events" => Some(queue, CloseOrEscapeRelease)
    /\ pc = "returned" => term = "quit"
    /\ "render" \notin OpsSet
    /\ "swap_buffers" \notin OpsSet
    /\ nRender = frame - 1

C1_Witness ==
  /\ pc = "returned"
  /\ frame = 2
  /\ Len(delivered) = 2
  /\ delivered[1] = CursorPosEv(<<10, 20>>)
  /\ delivered[2] = KeyEv("Escape", "Release")
  /\ cursor_position = <<10, 20>>

(* C2 as stated: in every frame, a point is appended iff the button flag   *)
(* is true at the end of the frame's event processing and a CursorPos      *)
(* event was delivered during the frame (cursor_position is not the        *)
(* sentinel).                                                              *)
C2_Original ==
  (frame > 0 /\ pc \notin {"poll", "events", "append"}) =>
    (Appended <=>
       (left_button_pressed /\ DeliveredCursorPos /\ cursor_position # Sentinel))

(* C2 amended: in a frame whose event processing runs to completion (no    *)
(* Close / Escape-Release), a point is appended iff the button flag is     *)
(* true at the end of the event processing and the last CursorPos event    *)
(* delivered in the frame exists and carries a position other than         *)
(* (-1,-1); a frame ended by Close / Escape-Release appends nothing.       *)
C2_AppendIff ==
  /\ AppendStepDone =>
       /\ Appended <=> (left_button_pressed /\ DeliveredFreshCursor)
       /\ DeliveredFreshCursor <=> cursor_position # Sentinel
       /\ ~Appended => points = points0
  /\ (frame > 0 /\ DeliveredQuit) => points = points0

C2_Witness ==
  /\ pc = "render"
  /\ frame = 2
  /\ delivered = <<CursorPosEv(<<15, 25>>)>>
  /\ points = <<<<10, 20>>, <<15, 25>>>>

(* C3: left_button_pressed is true exactly when the most recent Button1    *)
(* Press/Release event processed was a Press (false when none was          *)
(* processed); a repeated action leaves the flag as it is.                 *)
C3_ButtonFlag ==
  /\ left_button_pressed <=> (lastBtn = "Press")
  /\ lastBtn = "None" => ~left_button_pressed

C3_Witness ==
  /\ frame = 2
  /\ pc = "events"
  /\ queue = <<>>
  /\ delivered = <<MouseButtonEv("Button1", "Release"), MouseButtonEv("Button1", "Release")>>
  /\ points # <<>>
  /\ ~left_button_pressed

(* C4 as stated: a frame that delivers one or more FramebufferSize events  *)
(* has the back buffer reacquired exactly once, before the next render.    *)
C4_Original ==
  (ReacquireStepDone /\ DeliveredResize) =>
    /\ back_buffer = back_buffer0 + 1
    /\ Count("back_buffer") = 1
    /\ Before("back_buffer", "render")

(* C4 amended: in a frame that delivers one or more FramebufferSize events *)
(* and no Close / Escape-Release, surface.back_buffer() is called exactly  *)
(* once, after the event processing and before the frame's render; when    *)
(* the call succeeds the handle is replaced exactly once and the flag is   *)
(* cleared, when it fails the process panics without a render.  A frame    *)
(* ended by Close / Escape-Release reacquires nothing.                     *)
C4_ResizeAbsorbed ==
  /\ (ReacquireStepDone /\ DeliveredResize /\ ~DeliveredQuit) =>
       /\ Count("back_buffer") = 1
       /\ Before("back_buffer", "render")
       /\ pc # "panicked" => (back_buffer = back_buffer0 + 1 /\ ~resize)
       /\ pc = "panicked" => (back_buffer = back_buffer0 /\ "render" \notin OpsSet)
  /\ (frame > 0 /\ DeliveredQuit) =>
       (back_buffer = back_buffer0 /\ "back_buffer" \notin OpsSet)

C4_Witness ==
  /\ pc = "is_ok"
  /\ delivered = <<FramebufferSizeEv, FramebufferSizeEv>>
  /\ ops = <<"poll_events", "back_buffer", "render">>
  /\ back_buffer = back_buffer0 + 1
  /\ frame = 2

(* C5: when the pipeline of frame K returns an error, swap_buffers is not  *)
(* called and the points are not printed for frame K, main leaves the loop *)
(* and no later frame is run (the frame is not retried).                   *)
C5_RenderFailure ==
  render = "err" =>
    /\ pc \in {"is_ok", "returned"}
    /\ pc = "returned" => term = "render_failed"
    /\ Count("render") = 1
    /\ ops[Len(ops)] = "render"
    /\ "swap_buffers" \notin OpsSet
    /\ "println" \notin OpsSet
    /\ nRender = frame
    /\ nRenderOk = frame - 1
    /\ nSwap = frame - 1
    /\ nEmit = frame - 1

C5_Witness ==
  /\ pc = "returned"
  /\ term = "render_failed"
  /\ render = "err"
  /\ frame = 3
  /\ nSwap = 2

(* C6: in every frame whose render succeeds swap_buffers is called exactly *)
(* once and then the points are printed exactly once; what is printed is   *)
(* the whole accumulated sequence, the point appended in that frame        *)
(* included; swaps, prints and successful renders are equal in number at   *)
(* every frame boundary and never more than one apart.                     *)
C6_SwapThenEmit ==
  /\ nEmit <= nSwap /\ nSwap <= nRenderOk /\ nRenderOk <= nEmit + 1
  /\ pc \notin {"is_ok", "println"} => (nSwap = nRenderOk /\ nEmit = nRenderOk)
  /\ (pc = "is_ok" /\ render = "ok") =>
       (nSwap = nRenderOk - 1 /\ "swap_buffers" \notin OpsSet)
  /\ pc = "println" =>
       /\ nSwap = nRenderOk /\ nEmit = nRenderOk - 1
       /\ Count("swap_buffers") = 1
       /\ "println" \notin OpsSet
  /\ (pc = "poll" /\ frame > 0) =>
       /\ render = "ok"
       /\ SubSeq(ops, Len(ops) - 2, Len(ops)) = <<"render", "swap_buffers", "println">>
       /\ Count("render") = 1 /\ Count("swap_buffers") = 1 /\ Count("println") = 1
       /\ nRenderOk = frame
       /\ printed = points
       /\ (left_button_pressed /\ cursor_position # Sentinel) =>
            /\ Len(printed) = Len(points0) + 1
            /\ printed[Len(printed)] = cursor_position

C6_Witness ==
  /\ pc = "poll"
  /\ frame = 2
  /\ nSwap = 2
  /\ nEmit = 2
  /\ points0 = <<<<10, 20>>>>
  /\ printed = <<<<10, 20>>, <<15, 25>>>>

(* C7: points is append-only: in every step the old value is a prefix of   *)
(* the new one and at most one element is added, and over a whole frame    *)
(* at most one element is added.                                           *)
C7_AppendOnly ==
  /\ [][IsPrefix(points, points') /\ Len(points') <= Len(points) + 1]_vars
  /\ [](IsPrefix(points0, points) /\ Len(points) <= Len(points0) + 1)

C7_Witness ==
  /\ points = <<<<10, 20>>, <<15, 25>>, <<10, 20>>>>
  /\ points0 = <<<<10, 20>>, <<15, 25>>>>

(* C8 as stated: the loop leaves Running only when a Close or              *)
(* Escape-Release event is processed or when the render fails; a frame     *)
(* with neither of those events and a successful render stays Running.     *)
C8_Original ==
  /\ [][(Running /\ ~Running') =>
          \/ pc = "events" /\ queue # <<>> /\ CloseOrEscapeRelease(Head(queue))
          \/ pc = "is_ok" /\ render = "err"]_vars
  /\ []((frame > 0 /\ ~DeliveredQuit /\ "render" \in OpsSet /\ render = "ok")
          => Running)

(* C8 amended: the loop leaves Running only when a Close or Escape-Release *)
(* event is processed, when the render fails, or when the back-buffer      *)
(* reacquisition that follows a FramebufferSize event fails (unwrap        *)
(* panics); a frame with neither of those events, whose reacquisition (if  *)
(* any) and render succeed, stays Running and goes on to the next frame.   *)
C8_LeavesRunningOnlyBy ==
  /\ [][(Running /\ ~Running') =>
          \/ pc = "events" /\ queue # <<>> /\ CloseOrEscapeRelease(Head(queue))
               /\ pc' = "returned"
          \/ pc = "is_ok" /\ render = "err" /\ pc' = "returned"
          \/ pc = "resize" /\ resize /\ DeliveredResize /\ pc' = "panicked"]_vars
  /\ [][(pc = "is_ok" /\ render = "ok") => pc' = "println"]_vars
  /\ [][pc = "println" => pc' = "poll"]_vars
  /\ []((frame > 0 /\ ~DeliveredQuit /\ "render" \in OpsSet /\ render = "ok")
          => Running)

C8_Witness ==
  /\ pc = "panicked"
  /\ frame = 2
  /\ delivered = <<FramebufferSizeEv>>
  /\ ops = <<"poll_events", "back_buffer">>

(* C9: processing an event that is not recognized (a key event other than  *)
(* Escape-Release, a button other than Button1, a Button1 action other     *)
(* than Press/Release, scroll) changes nothing but the queue: the cursor   *)
(* position, the button flag, the resize flag, the points, the back        *)
(* buffer and the Running state stay as they are and the drain goes on     *)
(* with the remaining events.                                              *)
C9_UnrecognizedNoOp ==
  [][(pc = "events" /\ queue # <<>> /\ Unrecognized(Head(queue))) =>
       /\ UNCHANGED <<cursor_position, left_button_pressed, resize, points,
                      back_buffer, render, term, ops, printed>>
       /\ pc' = "events"
       /\ queue' = Tail(queue)]_vars

C9_Witness ==
  /\ pc = "events"
  /\ queue = <<>>
  /\ delivered = <<MouseButtonEv("Button2", "Press"), CursorPosEv(<<10, 20>>)>>
  /\ cursor_position = <<10, 20>>
  /\ ~left_button_pressed

(* C10: Terminating is absorbing: once main has left the loop through      *)
(* break 'app it has returned, and nothing happens any more (no poll, no   *)
(* append, no reacquisition, no render, no swap, no print).                *)
C10_TerminatingAbsorbing ==
  /\ [](Terminating => pc = "returned")
  /\ [](pc = "returned" => Terminating)
  /\ [][Terminating => UNCHANGED vars]_vars

C10_Witness ==
  /\ Terminating
  /\ pc = "returned"
  /\ term = "quit"
  /\ frame = 2
  /\ delivered = <<FramebufferSizeEv, CloseEv>>
  /\ resize
  /\ left_button_pressed
  /\ nRender = 1

(* C11 as stated: the process exits with code 0 when the loop ends by a    *)
(* Close / Escape-Release, and terminates abnormally (non-zero) when       *)
(* construction fails or when the render fails.                            *)
C11_Original ==
  /\ term = "quit" => ExitCode = 0
  /\ term = "render_failed" => ExitCode \notin {0, -1}
  /\ (term = "panic" /\ frame = 0) => ExitCode \notin {0, -1}

(* C11 amended: the process exits with code 0 when the loop ends by a      *)
(* Close / Escape-Release or by a failed render (both are break 'app,      *)
(* after which main returns), and terminates abnormally (panic, non-zero)  *)
(* when construction fails or when reacquiring the back buffer fails; it   *)
(* ends in no other way.                                                   *)
C11_ExitCodes ==
  /\ term = "quit" => ExitCode = 0
  /\ term = "render_failed" => ExitCode = 0
  /\ term = "panic" => ExitCode = 101
  /\ ExitCode = 0 => Terminating
  /\ ExitCode = 101 => (term = "panic" /\ (frame = 0 \/ ops[Len(ops)] = "back_buffer"))
  /\ term = "none" => ExitCode = -1

C11_Witness ==
  /\ term = "render_failed"
  /\ ExitCode = 0
  /\ frame = 2
  /\ render = "err"
  /\ nRenderOk = 1

(* C12: when the creation of the surface, of the program or of the         *)
(* tessellation fails the process aborts at once: it stays aborted (no     *)
(* retry), the loop is never entered (Running is entered only from the     *)
(* last start-up step, with everything built) and no event is polled, no   *)
(* render, swap or print is made.                                          *)
C12_FatalSetup ==
  /\ [](term = "panic" => pc = "panicked")
  /\ []((pc = "panicked" /\ frame = 0) =>
          /\ ops = <<>> /\ delivered = <<>> /\ queue = <<>>
          /\ nRender = 0 /\ nSwap = 0 /\ nEmit = 0 /\ nAcquire = 0
          /\ points = <<>> /\ printed = <<>>)
  /\ [][pc = "panicked" => UNCHANGED vars]_vars
  /\ [][(~Running /\ Running') =>
          /\ pc = "back_buffer"
          /\ term = "none"
          /\ indexed_triangles.built
          /\ back_buffer' = 1]_vars

C12_Witness ==
  /\ pc = "panicked"
  /\ term = "panic"
  /\ frame = 0
  /\ ~indexed_triangles.built
  /\ back_buffer = 0

(* C13 as stated: the button flag persists across frames and the cursor    *)
(* position does not: with the button held since an earlier frame, a frame *)
(* without CursorPos leaves points unchanged, every frame that delivers a  *)
(* CursorPos (with a position other than the sentinel) appends a point,    *)
(* and after a Release no frame appends until another Press.               *)
C13_Original ==
  (frame > 0 /\ pc \notin {"poll", "events", "append"}) =>
    /\ (left_button_pressed /\ ~DeliveredCursorPos) => points = points0
    /\ (left_button_pressed /\ ~Some(delivered, Button1PressOrRelease)
          /\ DeliveredFreshCursor /\ cursor_position # Sentinel) => Appended
    /\ lastBtn = "Release" => points = points0

(* C13 amended: the same, where the frames that append are those whose     *)
(* event processing runs to completion (no Close / Escape-Release) and     *)
(* whose last CursorPos carries a position other than (-1,-1).  The flag   *)
(* is changed by nothing but a Button1 Press/Release event, and every poll *)
(* resets cursor_position to the sentinel.                                 *)
C13_Persistence ==
  /\ []((frame > 0 /\ pc \notin {"poll", "events", "append"}) =>
          /\ (left_button_pressed /\ ~DeliveredCursorPos) => points = points0
          /\ (~DeliveredQuit /\ left_button_pressed
                /\ ~Some(delivered, Button1PressOrRelease)
                /\ DeliveredFreshCursor) => Appended
          /\ lastBtn = "Release" => points = points0
          /\ DeliveredQuit => points = points0)
  /\ [][left_button_pressed' # left_button_pressed =>
          (pc = "events" /\ queue # <<>> /\ Button1PressOrRelease(Head(queue)))]_vars
  /\ [][frame' # frame => cursor_position' = Sentinel]_vars

C13_Witness ==
  /\ pc = "resize"
  /\ frame = 3
  /\ delivered = <<CursorPosEv(<<15, 25>>)>>
  /\ lastBtn = "Press"
  /\ points0 = <<<<10, 20>>>>
  /\ points = <<<<10, 20>>, <<15, 25>>>>
  /\ nRenderOk = 2

(* C14: the static mesh data the tessellation is built from is well        *)
(* formed: 6 indices, that is 2 triples (2 triangles), each index          *)
(* strictly less than the number of vertices, 6.                           *)
C14_MeshWellFormed ==
  indexed_triangles.built =>
    LET idx == indexed_triangles.indices
        vs == indexed_triangles.vertices
    IN /\ Len(vs) = 6
       /\ Len(idx) = 6
       /\ Len(idx) % 3 = 0
       /\ Len(idx) \div 3 = 2
       /\ \A i \in 1..Len(idx) : idx[i] >= 0 /\ idx[i] < Len(vs)
       /\ indexed_triangles.mode = "Triangle"

C14_Witness ==
  /\ pc = "is_ok"
  /\ render = "ok"
  /\ indexed_triangles.built
  /\ Len(indexed_triangles.indices) = 6
  /\ Len(indexed_triangles.vertices) = 6

(* the events of this frame the match has handled so far *)
Processed == SubSeq(delivered, 1, Len(delivered) - Len(queue))

(* the position of the last CursorPos event delivered in this frame *)
LastDeliveredCursor ==
  LET idx == {i \in 1..Len(delivered) : IsCursorPos(delivered[i])}
      last == CHOOSE i \in idx : \A j \in idx : j <= i
  IN delivered[last].pos

(* C15: every render is issued against a back buffer acquired after the    *)
(* last FramebufferSize event processed so far: when the pipeline runs     *)
(* the resize flag is false and no FramebufferSize event has been          *)
(* processed since the handle was last acquired.                           *)
C15_RenderOnFreshBuffer ==
  /\ [](pc = "render" =>
          /\ ~resize
          /\ ~fbStale
          /\ back_buffer >= 1
          /\ Some(Processed, IsFramebufferSize) =>
               (back_buffer = back_buffer0 + 1 /\ ops[Len(ops)] = "back_buffer"))
  /\ [][nRender' # nRender => (pc = "render" /\ ~resize /\ ~fbStale)]_vars

C15_Witness ==
  /\ pc = "is_ok"
  /\ frame = 3
  /\ delivered = <<FramebufferSizeEv, CursorPosEv(<<10, 20>>)>>
  /\ back_buffer = 3
  /\ back_buffer0 = 2
  /\ ~fbStale

(* C16: a point appended in frame N is the position of the last CursorPos  *)
(* event delivered in frame N itself, wherever the Press sits in the       *)
(* frame; a position delivered in an earlier frame is never appended in a  *)
(* later one, every poll resetting cursor_position to the sentinel.        *)
C16_AppendedIsLastCursor ==
  /\ (frame > 0 /\ pc \notin {"poll", "events", "append"} /\ Appended) =>
       /\ DeliveredCursorPos
       /\ points[Len(points)] = LastDeliveredCursor
  /\ (frame > 0 /\ pc \notin {"poll", "events", "append"} /\ ~DeliveredCursorPos) =>
       points = points0
  /\ (pc = "events" /\ ~Some(Processed, IsCursorPos)) => cursor_position = Sentinel

C16_Witness ==
  /\ pc = "resize"
  /\ frame = 2
  /\ points0 = <<<<15, 25>>>>
  /\ delivered = <<CursorPosEv(<<10, 20>>), MouseButtonEv("Button1", "Press")>>
  /\ points = <<<<15, 25>>, <<10, 20>>>>

(* C17: the resize flag is never carried from one frame to the next: it is *)
(* false whenever an iteration starts; within a frame it is true only      *)
(* after a FramebufferSize event of that frame, and the back buffer is     *)
(* replaced in a frame only if such an event was processed in it; a frame  *)
(* without one keeps the handle it started with.                           *)
C17_ResizeNotCarried ==
  /\ pc = "poll" => ~resize
  /\ (frame > 0 /\ pc # "poll") =>
       /\ resize => Some(Processed, IsFramebufferSize)
       /\ back_buffer # back_buffer0 =>
            (Some(Processed, IsFramebufferSize) /\ back_buffer = back_buffer0 + 1)
       /\ ~DeliveredResize => (back_buffer = back_buffer0 /\ ~resize)

C17_Witness ==
  /\ pc = "render"
  /\ frame = 3
  /\ delivered = <<ScrollEv>>
  /\ back_buffer = 2
  /\ back_buffer0 = 2
  /\ nAcquire = 1

(* C18: no iteration waits for events, so under fair scheduling of the     *)
(* loop a delivered Close / Escape-Release, or a failed render, leads to   *)
(* Terminating.                                                            *)
C18_EventuallyTerminating ==
  /\ DeliveredQuit ~> Terminating
  /\ (render = "err") ~> Terminating

C18_Witness ==
  /\ Terminating
  /\ pc = "returned"
  /\ frame = 3
  /\ delivered = <<KeyEv("Escape", "Press"), CloseEv>>
  /\ queue = <<>>

(* C19: points never contains the sentinel (-1,-1): a frame whose last     *)
(* CursorPos event carries exactly (-1,-1) appends nothing even with the   *)
(* button pressed.                                                         *)
C19_NoSentinelPoint ==
  /\ \A i \in 1..Len(points) : points[i] # Sentinel
  /\ (frame > 0 /\ pc \notin {"poll", "events", "append"}
        /\ DeliveredCursorPos /\ LastDeliveredCursor = Sentinel) =>
       points = points0

C19_Witness ==
  /\ pc = "resize"
  /\ frame = 2
  /\ left_button_pressed
  /\ delivered = <<CursorPosEv(<<10, 20>>), CursorPosEv(Sentinel)>>
  /\ points = <<<<10, 20>>>>
  /\ points0 = <<<<10, 20>>>>

====
